---- MODULE Spec2Model ----
(***************************************************************************)
(* Model of mock-grpc-server.go: the MockRegistry, LoadRegistry, and the   *)
(* steps of MockRegistry.GetResponse as run by concurrent gRPC handlers.   *)
(*                                                                         *)
(* Strings the code takes apart (artifact names, type names, paths) are    *)
(* sequences of one-character strings.  Byte strings (the protojson output *)
(* of a request) are sequences of small naturals.                          *)
(***************************************************************************)
EXTENDS Naturals, Integers, Sequences, FiniteSets, TLC

\* ------------------------------------------------------------- bounds

\* Number of GetResponse calls in one run.  Each call runs in the goroutine
\* of its gRPC handler: calls may overlap in any way or follow one another.
NumCalls == 2

Calls == 1..NumCalls

\* ------------------------------------------------------------- strings

Last(s) == s[Len(s)]

RECURSIVE StripTrailingSlashes(_)
StripTrailingSlashes(path) ==
    IF Len(path) > 0 /\ Last(path) = "/"
    THEN StripTrailingSlashes(SubSeq(path, 1, Len(path) - 1))
    ELSE path

\* Index of the last "/" of path, 0 when there is none.
RECURSIVE LastSlash(_, _)
LastSlash(path, i) ==
    IF i = 0 THEN 0
    ELSE IF path[i] = "/" THEN i
    ELSE LastSlash(path, i - 1)

\* path/filepath.Base: the last element of path; trailing separators are
\* removed first; "" gives "." and a path of separators only gives "/".
Base(path) ==
    IF path = <<>> THEN <<".">>
    ELSE LET p == StripTrailingSlashes(path)
             q == SubSeq(p, LastSlash(p, Len(p)) + 1, Len(p))
         IN  IF q = <<>> THEN <<"/">> ELSE q

\* path/filepath.Ext: the suffix beginning at the final dot of the final
\* element of path; empty when there is no dot.
RECURSIVE ExtFrom(_, _)
ExtFrom(path, i) ==
    IF i = 0 \/ path[i] = "/" THEN <<>>
    ELSE IF path[i] = "." THEN SubSeq(path, i, Len(path))
    ELSE ExtFrom(path, i - 1)

Ext(path) == ExtFrom(path, Len(path))

\* A plausible slip: cut at the first dot of the base name, not the last.
inferTypeNameFirstDot(filename) ==
    LET base == Base(filename)
        dots == {i \in 1..Len(base) : base[i] = "."}
    IN  IF dots = {} THEN base
        ELSE SubSeq(base, 1, (CHOOSE i \in dots : \A j \in dots : i <= j) - 1)

\* inferTypeName: base[:len(base)-len(filepath.Ext(base))]
inferTypeName(filename) ==
    LET base == Base(filename)
    IN  SubSeq(base, 1, Len(base) - Len(Ext(base)))

\* The configured response directory.
ResponseDir == <<"r">>

\* The non-empty elements of a path, in order: what stands between its
\* separators (cur is the element being read, acc the elements read).
RECURSIVE Components(_, _, _)
Components(path, cur, acc) ==
    IF path = <<>> THEN (IF cur = <<>> THEN acc ELSE Append(acc, cur))
    ELSE IF Head(path) = "/"
         THEN Components(Tail(path), <<>>, IF cur = <<>> THEN acc ELSE Append(acc, cur))
         ELSE Components(Tail(path), Append(cur, Head(path)), acc)

\* path/filepath.Clean on the elements: "." is dropped; ".." removes the
\* element before it, is dropped at the root and is kept at the start of a
\* relative path.
RECURSIVE CleanElements(_, _, _)
CleanElements(elems, out, rooted) ==
    IF elems = <<>> THEN out
    ELSE LET e == Head(elems)
         IN  CleanElements(Tail(elems),
                 IF e = <<".">> THEN out
                 ELSE IF e = <<".", ".">>
                      THEN IF out # <<>> /\ Last(out) # <<".", ".">>
                           THEN SubSeq(out, 1, Len(out) - 1)
                           ELSE IF rooted THEN out ELSE Append(out, e)
                      ELSE Append(out, e),
                 rooted)

\* The elements with one separator between them.
RECURSIVE JoinElements(_)
JoinElements(elems) ==
    IF elems = <<>> THEN <<>>
    ELSE IF Len(elems) = 1 THEN Head(elems)
    ELSE Head(elems) \o <<"/">> \o JoinElements(Tail(elems))

\* path/filepath.Clean: the shortest equivalent path; "" gives ".".
Clean(path) ==
    IF path = <<>> THEN <<".">>
    ELSE LET rooted == Head(path) = "/"
             kept == JoinElements(CleanElements(Components(path, <<>>, <<>>), <<>>, rooted))
         IN  IF rooted THEN <<"/">> \o kept
             ELSE IF kept = <<>> THEN <<".">> ELSE kept

\* path/filepath.Join(r.ResponseDir, responseFile): the non-empty elements
\* joined by a separator and the result cleaned; "" when both are empty.
Join(dir, name) ==
    IF dir = <<>> /\ name = <<>> THEN <<>>
    ELSE IF dir = <<>> THEN Clean(name)
    ELSE IF name = <<>> THEN Clean(dir)
    ELSE Clean(dir \o <<"/">> \o name)

\* ------------------------------------------------------------- requests

\* A request message of the served API: a scalar field id, a map field tags
\* (held by Go in a map, whose iteration order is arbitrary: the sequence is
\* one such order, without repeated keys) and a string field whose bytes are
\* valid UTF-8 or not.
TagOrders == {<<"a", "b">>, <<"b", "a">>}

Requests ==
    {r \in [id : {0, 1}, tags : TagOrders, utf8 : BOOLEAN] :
        r.utf8 \/ (r.id = 0 /\ r.tags = <<"a", "b">>)}

\* The field values of a request, the order of the map's entries left out.
FieldValues(req) ==
    [id |-> req.id, tags |-> {req.tags[i] : i \in 1..Len(req.tags)}, utf8 |-> req.utf8]

\* The bytes protojson writes, as small naturals.
Tok ==
    [lbrace |-> 1, rbrace |-> 2, comma |-> 3, space |-> 4, keyId |-> 5, keyTags |-> 6,
     zero |-> 7, one |-> 8, a |-> 9, b |-> 10]

TagTok(t) == IF t = "a" THEN Tok.a ELSE Tok.b

\* protojson orders the entries of a map field by key.
RECURSIVE SortTags(_)
SortTags(keys) ==
    IF keys = {} THEN <<>>
    ELSE LET k == CHOOSE x \in keys : \A y \in keys : TagTok(x) <= TagTok(y)
         IN  <<k>> \o SortTags(keys \ {k})

\* The encoder's separator between two members: a comma, and one more space
\* when detrand.Bool() holds for this build of the binary.
Sep(detrand) == IF detrand THEN <<Tok.comma, Tok.space>> ELSE <<Tok.comma>>

RECURSIVE JoinMembers(_, _)
JoinMembers(members, detrand) ==
    IF members = <<>> THEN <<>>
    ELSE IF Len(members) = 1 THEN members[1]
    ELSE members[1] \o Sep(detrand) \o JoinMembers(Tail(members), detrand)

\* The entries of the map field in the order given.
TagMembers(order) == [i \in 1..Len(order) |-> <<TagTok(order[i])>>]

\* A plausible slip: the map field written in Go's iteration order.
MarshalUnsorted(req, emitUnpopulated, detrand) ==
    LET idMember == IF req.id = 0 /\ ~emitUnpopulated THEN <<>>
                    ELSE << <<Tok.keyId, IF req.id = 0 THEN Tok.zero ELSE Tok.one>> >>
        tagsBody == <<Tok.lbrace>> \o JoinMembers(TagMembers(req.tags), detrand)
                      \o <<Tok.rbrace>>
        tagsMember == IF req.tags = <<>> /\ ~emitUnpopulated THEN <<>>
                      ELSE << <<Tok.keyTags>> \o tagsBody >>
    IN  [err |-> ~req.utf8,
         out |-> IF ~req.utf8 THEN <<>>
                 ELSE <<Tok.lbrace>> \o JoinMembers(idMember \o tagsMember, detrand)
                        \o <<Tok.rbrace>>]

\* protojson.MarshalOptions{EmitUnpopulated: ...}.Marshal(req): fails on a
\* string field that is not valid UTF-8; otherwise writes the fields in
\* declaration order, a map field's entries in key order, and a field at its
\* zero value only when emitUnpopulated.
Marshal(req, emitUnpopulated, detrand) ==
    LET idMember == IF req.id = 0 /\ ~emitUnpopulated THEN <<>>
                    ELSE << <<Tok.keyId, IF req.id = 0 THEN Tok.zero ELSE Tok.one>> >>
        sorted == SortTags({req.tags[i] : i \in 1..Len(req.tags)})
        tagsBody == <<Tok.lbrace>> \o JoinMembers(TagMembers(sorted), detrand)
                      \o <<Tok.rbrace>>
        tagsMember == IF req.tags = <<>> /\ ~emitUnpopulated THEN <<>>
                      ELSE << <<Tok.keyTags>> \o tagsBody >>
    IN  [err |-> ~req.utf8,
         out |-> IF ~req.utf8 THEN <<>>
                 ELSE <<Tok.lbrace>> \o JoinMembers(idMember \o tagsMember, detrand)
                        \o <<Tok.rbrace>>]

\* sha256.Sum256 stands as a 16-bit polynomial digest of the bytes: a fixed
\* function of the bytes alone, without collisions on the requests above.
DigestMod == 65521

RECURSIVE Sum256From(_, _)
Sum256From(h, bytes) ==
    IF bytes = <<>> THEN h
    ELSE Sum256From((h * 31 + Head(bytes)) % DigestMod, Tail(bytes))

Sum256(bytes) == Sum256From(7, bytes)

HexDigit(d) == SubSeq(<<"0", "1", "2", "3", "4", "5", "6", "7", "8", "9",
                        "a", "b", "c", "d", "e", "f">>, d + 1, d + 1)

\* fmt.Sprintf("%x", digest): two lowercase hex digits for every byte.
Sprintfx(n) ==
    HexDigit((n \div 4096) % 16) \o HexDigit((n \div 256) % 16)
      \o HexDigit((n \div 16) % 16) \o HexDigit(n % 16)

\* GetResponse, lines 44-50: the hash of a request that marshals.
Fingerprint(req, detrand) == Sprintfx(Sum256(Marshal(req, TRUE, detrand).out))

\* ------------------------------------------------------------- messages

\* The response message types of the served API and their fields.
Schema(type) == IF type = "Widget" THEN {"id", "name"} ELSE {"id"}

\* A message of a type with every field at its zero value.
Zero(type) == [type |-> type, fields |-> [f \in Schema(type) |-> 0]]

\* Content equality of two messages (proto.Equal).
ContentEqual(m1, m2) == m1.type = m2.type /\ m1.fields = m2.fields

\* What os.ReadFile yields: no data (with an error), bytes that are no JSON,
\* or a JSON object, given as the sequence of its members in file order,
\* each a pair of a name and a number.
NoData == [k |-> "none", json |-> <<>>]
Garbage == [k |-> "garbage", json |-> <<>>]
Json(obj) == [k |-> "json", json |-> obj]

\* The members of a JSON object decoded into the message in place, in file
\* order: a member that is no field of the message's type, or names a field
\* a member before it has set, is an error, and the message keeps what the
\* members before it have set.
RECURSIVE DecodeMembers(_, _, _)
DecodeMembers(members, msg, seen) ==
    IF members = <<>> THEN [err |-> FALSE, msg |-> msg]
    ELSE LET f == Head(members)[1]
             v == Head(members)[2]
         IN  IF f \notin Schema(msg.type) \/ f \in seen
             THEN [err |-> TRUE, msg |-> msg]
             ELSE DecodeMembers(Tail(members), [msg EXCEPT !.fields[f] = v],
                                seen \cup {f})

\* A plausible slip: decoding on top of the clone's content without clearing.
UnmarshalNoReset(data, msg) ==
    IF data.k # "json" THEN [err |-> TRUE, msg |-> msg]
    ELSE DecodeMembers(data.json, msg, {})

\* protojson.Unmarshal(respData, response): clears the message, then sets
\* the fields the JSON object names, member by member; fails on bytes that
\* are no JSON object and on a member that is no field of the message's
\* type, leaving the fields set so far.
Unmarshal(data, msg) ==
    IF data.k # "json" THEN [err |-> TRUE, msg |-> Zero(msg.type)]
    ELSE DecodeMembers(data.json, Zero(msg.type), {})

\* ------------------------------------------------------------- fixtures

W_j == <<"W", ".", "j">>
G_j == <<"G", ".", "j">>
d_W_j == <<"d", "/", "W", ".", "j">>
W_ == <<"W">>
dx_W == <<"d", ".", "x", "/", "W">>
W_t_j == <<"W", ".", "t", ".", "j">>

\* The two fingerprints a fixture generator of a build without the extra
\* space computes for the requests with id 1 and id 0.
K1 == Fingerprint([id |-> 1, tags |-> <<"a", "b">>, utf8 |-> TRUE], FALSE)
K0 == Fingerprint([id |-> 0, tags |-> <<"a", "b">>, utf8 |-> TRUE], FALSE)

\* A key that is the fingerprint of no request of the model.
KX == <<"0", "0", "0", "0">>

\* A JSON member value: a string, null, or a number.
Str(s) == [k |-> "string", s |-> s]
Null == [k |-> "null", s |-> <<>>]
Num == [k |-> "number", s |-> <<>>]

\* What the mapping file holds: no readable file, bytes that are no JSON,
\* or a JSON value: null, an array, or an object given as the sequence of
\* its members <<key, value>> in file order.
MFile(kind, members) == [k |-> kind, members |-> members]

MappingFiles ==
    { MFile("unreadable", <<>>), MFile("invalid", <<>>), MFile("null", <<>>),
      MFile("array", <<>>), MFile("object", <<>>),
      MFile("object", << <<K1, Str(G_j)>>, <<K1, Str(W_j)>> >>),
      MFile("object", << <<K1, Str(d_W_j)>>, <<K0, Str(W_)>> >>),
      MFile("object", << <<KX, Null>>, <<K0, Str(G_j)>> >>),
      MFile("object", << <<K1, Str(dx_W)>>, <<K0, Str(W_t_j)>> >>),
      MFile("object", << <<K1, Str(W_j)>>, <<K0, Num>> >>) }

ArtifactNames == {W_j, G_j, d_W_j, W_, dx_W, W_t_j}

\* filepath.Join(r.ResponseDir, responseFile) for every artifact name a
\* Mapping Table of this model can hold, the empty name included.
ResponsePaths == [name \in ArtifactNames \cup {<<>>} |-> Join(ResponseDir, name)]

File(name, content) == <<Join(ResponseDir, name), content>>

\* The response directory: a function from the paths of its files.
Dir(entries) ==
    [path \in {e[1] : e \in entries} |-> (CHOOSE e \in entries : e[1] = path)[2]]

ArtifactDirs ==
    { Dir({File(W_j, Json(<< <<"id", 42>>, <<"name", 7>> >>)),
           File(G_j, Json(<< <<"id", 1>> >>)),
           File(d_W_j, Json(<< <<"id", 5>> >>)), File(W_, Json(<<>>)),
           File(dx_W, Json(<< <<"name", 4>> >>)),
           File(W_t_j, Json(<< <<"id", 6>> >>))}),
      Dir({File(W_j, Json(<< <<"id", 42>>, <<"zz", 1>> >>)), File(d_W_j, Garbage),
           File(W_, Json(<< <<"id", 8>> >>))}),
      Dir({File(G_j, Garbage), File(W_, Json(<< <<"id", 3>> >>))}) }

\* The prototypes an embedding application may hand to LoadRegistry.
TypeRegistries ==
    { <<>>,
      [n \in {W_} |-> Zero("Widget")],
      [n \in {W_, <<"G">>} |->
         IF n = W_ THEN [type |-> "Widget", fields |-> [id |-> 9, name |-> 9]]
         ELSE Zero("Gadget")] }

\* ------------------------------------------------------------- state

VARIABLES
    detrand,        \* detrand.Bool() of this build: protojson's extra space
    mappingFile,    \* what the mapping file holds
    files,          \* the response directory: path -> content
    responseTypes,  \* the map the application hands to LoadRegistry
    reg,            \* "none" before LoadRegistry, then "loaded" or "failed"
    loadErr,        \* the error LoadRegistry returned ("nil" when none)
    Mapping,        \* MockRegistry.Mapping: hash -> artifact name
    ResponseTypes,  \* MockRegistry.ResponseTypes: type name -> prototype (heap id)
    cache,          \* MockRegistry.cache: hash -> response (heap id)
    heap,           \* the messages allocated so far; a message's id is its index
    pc,             \* where each call stands in GetResponse
    req,            \* the request of each call
    hash,           \* local hash
    responseFile,   \* local responseFile
    respData,       \* local respData
    typeTemplate,   \* local typeTemplate (heap id)
    response,       \* local response (heap id)
    ret,            \* what the call returned: [val, err]
    io,             \* artifact reads made by each call
    reads           \* artifact reads made so far, per path

vars == <<detrand, mappingFile, files, responseTypes, reg, loadErr, Mapping,
          ResponseTypes, cache, heap, pc, req, hash, responseFile, respData, typeTemplate, response, ret,
          io, reads>>

env == <<detrand, mappingFile, files, responseTypes>>
registry == <<reg, loadErr, Mapping, ResponseTypes>>

\* The nil message and the nil error.
Nil == 0
NoErr == [kind |-> "nil", ctx |-> <<>>]
Err(kind, ctx) == [kind |-> kind, ctx |-> ctx]

NoReq == [id |-> 0, tags |-> <<>>, utf8 |-> TRUE]

\* ------------------------------------------------------------- LoadRegistry

\* os.ReadFile of an artifact path.
ReadFile(path) ==
    IF path \in DOMAIN files THEN [err |-> FALSE, data |-> files[path]]
    ELSE [err |-> TRUE, data |-> NoData]

\* The map json.Unmarshal builds from the members of an object, in file
\* order: a string sets the key, so the last of two equal keys wins; null
\* or a value of any other kind sets the key to the zero string (the other
\* kind is reported as an error by the caller of this operator).
RECURSIVE MembersToMap(_, _)
MembersToMap(members, m) ==
    IF members = <<>> THEN m
    ELSE LET key == Head(members)[1]
             val == Head(members)[2]
             set(s) == [h \in DOMAIN m \cup {key} |-> IF h = key THEN s ELSE m[h]]
         IN  MembersToMap(Tail(members),
                          IF val.k = "string" THEN set(val.s) ELSE set(<<>>))

\* A stricter decoder: null, at the top or as a member value, is an error.
JsonUnmarshalStrict(file) ==
    IF file.k \in {"invalid", "array", "null"} THEN [err |-> TRUE, mapping |-> <<>>]
    ELSE [err |-> \E i \in 1..Len(file.members) : file.members[i][2].k # "string",
          mapping |-> MembersToMap(file.members, <<>>)]

\* json.Unmarshal(data, &mapping) into a map[string]string: a syntax error
\* or a JSON value that is neither null nor an object fails; null leaves the
\* map nil; a member value that is neither a string nor null fails.
JsonUnmarshal(file) ==
    IF file.k \in {"invalid", "array"} THEN [err |-> TRUE, mapping |-> <<>>]
    ELSE IF file.k = "null" THEN [err |-> FALSE, mapping |-> <<>>]
    ELSE [err |-> \E i \in 1..Len(file.members) :
                     file.members[i][2].k \notin {"string", "null"},
          mapping |-> MembersToMap(file.members, <<>>)]

\* LoadRegistry(mappingFilePath, responseDir, responseTypes)
LoadRegistry ==
    /\ reg = "none"
    /\ IF mappingFile.k = "unreadable"
       THEN /\ reg' = "failed"
            /\ loadErr' = "ReadFile"
            /\ UNCHANGED <<Mapping, ResponseTypes>>
       ELSE LET parsed == JsonUnmarshal(mappingFile)
            IN  IF parsed.err
                THEN /\ reg' = "failed"
                     /\ loadErr' = "Unmarshal"
                     /\ UNCHANGED <<Mapping, ResponseTypes>>
                ELSE /\ reg' = "loaded"
                     /\ loadErr' = "nil"
                     /\ Mapping' = parsed.mapping
                     /\ ResponseTypes' = responseTypes
    /\ UNCHANGED <<env, cache, heap, pc, req, hash, responseFile, respData,
                   typeTemplate, response, ret, io, reads>>

\* The heap ids of the prototypes of a type registry, in some fixed order.
ProtoIds(types) ==
    CHOOSE ids \in [DOMAIN types -> 1..Cardinality(DOMAIN types)] :
        \A n1, n2 \in DOMAIN types : ids[n1] = ids[n2] => n1 = n2

Init ==
    /\ detrand \in BOOLEAN
    /\ mappingFile \in MappingFiles
    /\ files \in ArtifactDirs
    /\ \E types \in TypeRegistries :
          /\ responseTypes = ProtoIds(types)
          /\ heap = [i \in 1..Cardinality(DOMAIN types) |->
                       types[CHOOSE n \in DOMAIN types : ProtoIds(types)[n] = i]]
    /\ reg = "none"
    /\ loadErr = "nil"
    /\ Mapping = <<>>
    /\ ResponseTypes = <<>>
    /\ cache = <<>>
    /\ pc = [p \in Calls |-> "idle"]
    /\ req = [p \in Calls |-> NoReq]
    /\ hash = [p \in Calls |-> <<>>]
    /\ responseFile = [p \in Calls |-> <<>>]
    /\ respData = [p \in Calls |-> NoData]
    /\ typeTemplate = [p \in Calls |-> Nil]
    /\ response = [p \in Calls |-> Nil]
    /\ ret = [p \in Calls |-> [val |-> Nil, err |-> NoErr]]
    /\ io = [p \in Calls |-> 0]
    /\ reads = [path \in {} |-> 0]

\* ------------------------------------------------------------- GetResponse

\* return val, err: the call ends and its locals are dead.
Returns(p, val, err) ==
    /\ pc' = [pc EXCEPT ![p] = "done"]
    /\ ret' = [ret EXCEPT ![p] = [val |-> val, err |-> err]]

\* Lines 43-50: a handler calls GetResponse(req); the request is marshalled
\* and hashed.  Calls are numbered in the order in which they start.
Call(p, r) ==
    /\ reg = "loaded"
    /\ pc[p] = "idle"
    /\ \A q \in Calls : q < p => pc[q] # "idle"
    /\ req' = [req EXCEPT ![p] = r]
    /\ LET m == Marshal(r, TRUE, detrand)
       IN  IF m.err
           THEN /\ Returns(p, Nil, Err("MarshalError", <<>>))
                /\ UNCHANGED hash
           ELSE /\ hash' = [hash EXCEPT ![p] = Sprintfx(Sum256(m.out))]
                /\ pc' = [pc EXCEPT ![p] = "load"]
                /\ UNCHANGED ret
    /\ UNCHANGED <<env, registry, cache, heap, responseFile, respData, typeTemplate,
                   response, io, reads>>

\* A plausible slip: a call that finds another call for its fingerprint in
\* flight waits for it to finish before it looks into the cache.
CacheLoadWait(p) ==
    /\ pc[p] = "load"
    /\ \A q \in Calls \ {p} : hash[q] = hash[p] => pc[q] \in {"idle", "done"}
    /\ IF hash[p] \in DOMAIN cache
       THEN Returns(p, cache[hash[p]], NoErr)
       ELSE /\ pc' = [pc EXCEPT ![p] = "mapping"]
            /\ UNCHANGED ret
    /\ UNCHANGED <<env, registry, cache, heap, req, hash, responseFile, respData,
                   typeTemplate, response, io, reads>>

\* A plausible slip: the cache is never consulted.
CacheLoadNever(p) ==
    /\ pc[p] = "load"
    /\ pc' = [pc EXCEPT ![p] = "mapping"]
    /\ UNCHANGED <<env, registry, cache, heap, req, hash, responseFile, respData,
                   typeTemplate, response, ret, io, reads>>

\* Lines 51-53: r.cache.Load(hash); a hit returns the cached message itself.
CacheLoad(p) ==
    /\ pc[p] = "load"
    /\ IF hash[p] \in DOMAIN cache
       THEN Returns(p, cache[hash[p]], NoErr)
       ELSE /\ pc' = [pc EXCEPT ![p] = "mapping"]
            /\ UNCHANGED ret
    /\ UNCHANGED <<env, registry, cache, heap, req, hash, responseFile, respData,
                   typeTemplate, response, io, reads>>

\* A plausible slip: ok is not tested, a missing key yields the zero string.
MappingLookupDefault(p) ==
    /\ pc[p] = "mapping"
    /\ responseFile' = [responseFile EXCEPT ![p] =
                          IF hash[p] \in DOMAIN Mapping THEN Mapping[hash[p]] ELSE <<>>]
    /\ pc' = [pc EXCEPT ![p] = "read"]
    /\ UNCHANGED <<env, registry, cache, heap, req, hash, respData, typeTemplate,
                   response, ret, io, reads>>

\* Lines 55-58: r.Mapping[hash]
MappingLookup(p) ==
    /\ pc[p] = "mapping"
    /\ IF hash[p] \in DOMAIN Mapping
       THEN /\ responseFile' = [responseFile EXCEPT ![p] = Mapping[hash[p]]]
            /\ pc' = [pc EXCEPT ![p] = "read"]
            /\ UNCHANGED ret
       ELSE /\ Returns(p, Nil, Err("NotFoundError", hash[p]))
            /\ UNCHANGED responseFile
    /\ UNCHANGED <<env, registry, cache, heap, req, hash, respData, typeTemplate,
                   response, io, reads>>

\* Lines 60-64: os.ReadFile(filepath.Join(r.ResponseDir, responseFile)); the
\* error of a failed read is a *PathError that names the path.
ReadArtifact(p) ==
    /\ pc[p] = "read"
    /\ LET responsePath == ResponsePaths[responseFile[p]]
           got == ReadFile(responsePath)
       IN  /\ io' = [io EXCEPT ![p] = @ + 1]
           /\ reads' = [path \in DOMAIN reads \cup {responsePath} |->
                          IF path = responsePath
                          THEN (IF path \in DOMAIN reads THEN reads[path] ELSE 0) + 1
                          ELSE reads[path]]
           /\ IF got.err
              THEN /\ Returns(p, Nil, Err("ReadError", responsePath))
                   /\ UNCHANGED respData
              ELSE /\ respData' = [respData EXCEPT ![p] = got.data]
                   /\ pc' = [pc EXCEPT ![p] = "resolve"]
                   /\ UNCHANGED ret
    /\ UNCHANGED <<env, registry, cache, heap, req, hash, responseFile, typeTemplate,
                   response>>

\* Lines 66-70: r.ResponseTypes[inferTypeName(responseFile)]
ResolveType(p) ==
    /\ pc[p] = "resolve"
    /\ LET responseTypeName == inferTypeName(responseFile[p])
       IN  IF responseTypeName \in DOMAIN ResponseTypes
           THEN /\ typeTemplate' = [typeTemplate EXCEPT ![p] = ResponseTypes[responseTypeName]]
                /\ pc' = [pc EXCEPT ![p] = "clone"]
                /\ UNCHANGED ret
           ELSE /\ Returns(p, Nil, Err("UnknownTypeError", responseTypeName))
                /\ UNCHANGED typeTemplate
    /\ UNCHANGED <<env, registry, cache, heap, req, hash, responseFile, respData,
                   response, io, reads>>

\* A plausible slip: the clone is put into the cache before it is decoded.
CloneAndPublish(p) ==
    /\ pc[p] = "clone"
    /\ heap' = Append(heap, heap[typeTemplate[p]])
    /\ response' = [response EXCEPT ![p] = Len(heap) + 1]
    /\ cache' = [h \in DOMAIN cache \cup {hash[p]} |->
                   IF h = hash[p] THEN Len(heap) + 1 ELSE cache[h]]
    /\ pc' = [pc EXCEPT ![p] = "unmarshal"]
    /\ UNCHANGED <<env, registry, req, hash, responseFile, respData,
                   typeTemplate, ret, io, reads>>

\* A plausible slip: response := typeTemplate, no clone.
CloneNone(p) ==
    /\ pc[p] = "clone"
    /\ response' = [response EXCEPT ![p] = typeTemplate[p]]
    /\ pc' = [pc EXCEPT ![p] = "unmarshal"]
    /\ UNCHANGED <<env, registry, cache, heap, req, hash, responseFile, respData,
                   typeTemplate, ret, io, reads>>

\* Line 72: response := proto.Clone(typeTemplate), a new message with the
\* prototype's content.
Clone(p) ==
    /\ pc[p] = "clone"
    /\ heap' = Append(heap, heap[typeTemplate[p]])
    /\ response' = [response EXCEPT ![p] = Len(heap) + 1]
    /\ pc' = [pc EXCEPT ![p] = "unmarshal"]
    /\ UNCHANGED <<env, registry, cache, req, hash, responseFile, respData,
                   typeTemplate, ret, io, reads>>

\* A plausible slip: return response, err.
UnmarshalResponseBoth(p) ==
    /\ pc[p] = "unmarshal"
    /\ LET got == Unmarshal(respData[p], heap[response[p]])
       IN  /\ heap' = [heap EXCEPT ![response[p]] = got.msg]
           /\ IF got.err
              THEN Returns(p, response[p], Err("DecodeError", <<>>))
              ELSE /\ pc' = [pc EXCEPT ![p] = "store"]
                   /\ UNCHANGED ret
    /\ UNCHANGED <<env, registry, cache, req, hash, responseFile, respData,
                   typeTemplate, response, io, reads>>

\* A plausible slip: the clone is stored before the decode's error is tested.
UnmarshalResponseStoreFirst(p) ==
    /\ pc[p] = "unmarshal"
    /\ LET got == Unmarshal(respData[p], heap[response[p]])
       IN  /\ heap' = [heap EXCEPT ![response[p]] = got.msg]
           /\ cache' = [h \in DOMAIN cache \cup {hash[p]} |->
                          IF h = hash[p] THEN response[p] ELSE cache[h]]
           /\ IF got.err
              THEN Returns(p, Nil, Err("DecodeError", <<>>))
              ELSE /\ pc' = [pc EXCEPT ![p] = "store"]
                   /\ UNCHANGED ret
    /\ UNCHANGED <<env, registry, req, hash, responseFile, respData,
                   typeTemplate, response, io, reads>>

\* Lines 73-75: protojson.Unmarshal(respData, response); its error says what
\* is wrong with the bytes and names no file.
UnmarshalResponse(p) ==
    /\ pc[p] = "unmarshal"
    /\ LET got == Unmarshal(respData[p], heap[response[p]])
       IN  /\ heap' = [heap EXCEPT ![response[p]] = got.msg]
           /\ IF got.err
              THEN Returns(p, Nil, Err("DecodeError", <<>>))
              ELSE /\ pc' = [pc EXCEPT ![p] = "store"]
                   /\ UNCHANGED ret
    /\ UNCHANGED <<env, registry, cache, req, hash, responseFile, respData,
                   typeTemplate, response, io, reads>>

\* A plausible slip: LoadOrStore, the instance already cached is kept and
\* becomes the response.
CacheStoreLoadOrStore(p) ==
    /\ pc[p] = "store"
    /\ cache' = [h \in DOMAIN cache \cup {hash[p]} |->
                   IF h \in DOMAIN cache THEN cache[h] ELSE response[p]]
    /\ response' = [response EXCEPT ![p] = cache'[hash[p]]]
    /\ pc' = [pc EXCEPT ![p] = "return"]
    /\ UNCHANGED <<env, registry, heap, req, hash, responseFile, respData,
                   typeTemplate, ret, io, reads>>

\* A plausible slip: the prototype is stored, not the decoded clone.
CacheStoreTemplate(p) ==
    /\ pc[p] = "store"
    /\ cache' = [h \in DOMAIN cache \cup {hash[p]} |->
                   IF h = hash[p] THEN typeTemplate[p] ELSE cache[h]]
    /\ pc' = [pc EXCEPT ![p] = "return"]
    /\ UNCHANGED <<env, registry, heap, req, hash, responseFile, respData,
                   typeTemplate, response, ret, io, reads>>

\* A plausible slip: the entry is stored as the cache's only one.
CacheStoreEvict(p) ==
    /\ pc[p] = "store"
    /\ cache' = [h \in {hash[p]} |-> response[p]]
    /\ pc' = [pc EXCEPT ![p] = "return"]
    /\ UNCHANGED <<env, registry, heap, req, hash, responseFile, respData,
                   typeTemplate, response, ret, io, reads>>

\* A plausible slip: the entry is stored under the artifact name.
CacheStoreByFile(p) ==
    /\ pc[p] = "store"
    /\ cache' = [h \in DOMAIN cache \cup {responseFile[p]} |->
                   IF h = responseFile[p] THEN response[p] ELSE cache[h]]
    /\ pc' = [pc EXCEPT ![p] = "return"]
    /\ UNCHANGED <<env, registry, heap, req, hash, responseFile, respData,
                   typeTemplate, response, ret, io, reads>>

\* Line 77: r.cache.Store(hash, response).  From this step on other calls
\* find the entry, although this call has not returned yet.
CacheStore(p) ==
    /\ pc[p] = "store"
    /\ cache' = [h \in DOMAIN cache \cup {hash[p]} |->
                   IF h = hash[p] THEN response[p] ELSE cache[h]]
    /\ pc' = [pc EXCEPT ![p] = "return"]
    /\ UNCHANGED <<env, registry, heap, req, hash, responseFile, respData,
                   typeTemplate, response, ret, io, reads>>

\* Line 78: return response, nil
ReturnResponse(p) ==
    /\ pc[p] = "return"
    /\ Returns(p, response[p], NoErr)
    /\ UNCHANGED <<env, registry, cache, heap, req, hash, responseFile, respData,
                   typeTemplate, response, io, reads>>

GetResponse(p) ==
    \/ \E r \in Requests : Call(p, r)
    \/ CacheLoad(p)
    \/ MappingLookup(p)
    \/ ReadArtifact(p)
    \/ ResolveType(p)
    \/ Clone(p)
    \/ UnmarshalResponse(p)
    \/ CacheStore(p)
    \/ ReturnResponse(p)

Next ==
    \/ LoadRegistry
    \/ \E p \in Calls : GetResponse(p)

Spec == Init /\ [][Next]_vars

\* The steps of a call that has started: lines 51-78.
Step(p) ==
    \/ CacheLoad(p)
    \/ MappingLookup(p)
    \/ ReadArtifact(p)
    \/ ResolveType(p)
    \/ Clone(p)
    \/ UnmarshalResponse(p)
    \/ CacheStore(p)
    \/ ReturnResponse(p)

\* Fair scheduling: the goroutine of a call that can take a step is not
\* held back for ever.
SpecFair == Init /\ [][Next]_vars /\ \A p \in Calls : WF_vars(Step(p))

\* A caller that breaks the contract of the data model: it modifies in
\* place the Response a finished call returned to it.
Mutate(p) ==
    /\ pc[p] = "done"
    /\ ret[p].val # Nil
    /\ heap[ret[p].val].fields.id # 99
    /\ heap' = [heap EXCEPT ![ret[p].val].fields.id = 99]
    /\ UNCHANGED <<env, registry, cache, pc, req, hash, responseFile, respData,
                   typeTemplate, response, ret, io, reads>>

NextMut ==
    \/ Next
    \/ \E p \in Calls : Mutate(p)

\* Callers that may modify the Responses they were given.
SpecMut == Init /\ [][NextMut]_vars

\* No other call is in progress.
Sequential(p) == \A q \in Calls \ {p} : pc[q] \in {"idle", "done"}

NextSeq ==
    \/ LoadRegistry
    \/ \E p \in Calls : Sequential(p) /\ GetResponse(p)

\* One call at a time: every call ends before the next one starts.
SpecSeq == Init /\ [][NextSeq]_vars

\* ------------------------------------------------------------- vocabulary

\* The call has ended with a Response.
Ok(p) == pc[p] = "done" /\ ret[p].err = NoErr /\ ret[p].val # Nil

\* The call has ended with an error of the kind.
Failed(p, kind) == pc[p] = "done" /\ ret[p].err.kind = kind /\ ret[p].val = Nil

\* The call has computed a fingerprint (its request marshalled).
Hashed(p) == pc[p] # "idle" /\ ret[p].err.kind # "MarshalError"

ArtifactPath(h) == ResponsePaths[Mapping[h]]
TypeNameOf(h) == inferTypeName(Mapping[h])
Readable(h) == ArtifactPath(h) \in DOMAIN files

\* The artifact is a JSON object all of whose members are fields of the type.
Decodable(data, type) ==
    /\ data.k = "json"
    /\ \A i \in 1..Len(data.json) : data.json[i][1] \in Schema(type)
    /\ \A i, j \in 1..Len(data.json) : data.json[i][1] = data.json[j][1] => i = j

\* The content the artifact declares for a message of the type: the fields
\* it names, the others at their zero value.
ArtifactContent(data, type) ==
    [type |-> type,
     fields |-> [f \in Schema(type) |->
                   IF \E i \in 1..Len(data.json) : data.json[i][1] = f
                   THEN data.json[CHOOSE i \in 1..Len(data.json) : data.json[i][1] = f][2]
                   ELSE 0]]

\* The fingerprint is mapped to an artifact that is readable and decodable
\* as the type registered under the derived type name.
Resolvable(h) ==
    /\ h \in DOMAIN Mapping
    /\ TypeNameOf(h) \in DOMAIN ResponseTypes
    /\ Readable(h)
    /\ Decodable(files[ArtifactPath(h)], heap[ResponseTypes[TypeNameOf(h)]].type)

Expected(h) ==
    ArtifactContent(files[ArtifactPath(h)], heap[ResponseTypes[TypeNameOf(h)]].type)

\* The response directory is read afresh by every os.ReadFile (line 61), so
\* what it holds may differ from one call to the next.  The artifact of a
\* cached fingerprint is deleted.
RemoveArtifact(path) ==
    /\ path \in DOMAIN files
    /\ \E h \in DOMAIN cache : path = ArtifactPath(h)
    /\ files' = [f \in DOMAIN files \ {path} |-> files[f]]
    /\ UNCHANGED <<detrand, mappingFile, responseTypes, registry, cache, heap,
                   pc, req, hash, responseFile, respData, typeTemplate,
                   response, ret, io, reads>>

\* The artifact of a cached fingerprint is overwritten with bytes that are
\* not JSON.
CorruptArtifact(path) ==
    /\ path \in DOMAIN files
    /\ \E h \in DOMAIN cache : path = ArtifactPath(h)
    /\ files[path] # Garbage
    /\ files' = [files EXCEPT ![path] = Garbage]
    /\ UNCHANGED <<detrand, mappingFile, responseTypes, registry, cache, heap,
                   pc, req, hash, responseFile, respData, typeTemplate,
                   response, ret, io, reads>>

NextEnv ==
    \/ Next
    \/ \E path \in DOMAIN files : RemoveArtifact(path)
    \/ \E path \in DOMAIN files : CorruptArtifact(path)

\* Artifact files that change while the server runs.
SpecEnv == Init /\ [][NextEnv]_vars

\* ------------------------------------------------------------- claims

\* C1 (cache reuse): of two sequential calls with the same fingerprint, the
\* first of which succeeded, the second succeeds with a Response that is
\* content-equal to the first and reads no artifact; when they are the only
\* calls so far, the artifact's read counter stands at 1.
C1_CacheReuse ==
    \A p, q \in Calls :
        (p < q /\ Ok(p) /\ pc[q] = "done" /\ Hashed(q) /\ hash[q] = hash[p])
        => /\ Ok(q)
           /\ ContentEqual(heap[ret[q].val], heap[ret[p].val])
           /\ io[q] = 0
           /\ (\A c \in Calls \ {p, q} : pc[c] = "idle")
                => reads[ArtifactPath(hash[p])] = 1

C1_Witness ==
    \E p, q \in Calls :
        /\ p < q /\ Ok(p) /\ Ok(q) /\ hash[q] = hash[p]
        /\ io[p] = 1 /\ io[q] = 0
        /\ req[p] # req[q]

\* C2 (lookup correctness): a finished call whose fingerprint is mapped to a
\* readable artifact decodable as the registered type has returned a Response
\* of that type whose content is the artifact's, cached or not.
C2_LookupCorrectness ==
    \A p \in Calls :
        (pc[p] = "done" /\ Hashed(p) /\ Resolvable(hash[p]))
        => /\ Ok(p)
           /\ heap[ret[p].val] = Expected(hash[p])

C2_Witness ==
    \E p, q \in Calls :
        /\ Ok(p) /\ Ok(q) /\ hash[p] = hash[q] /\ Resolvable(hash[p])
        /\ io[p] = 1 /\ io[q] = 0
        /\ heap[typeTemplate[p]] # Zero("Widget")
        /\ heap[ret[q].val] = Expected(hash[p])

\* C3 (missing mapping): a finished call whose fingerprint is no key of the
\* Mapping Table has returned NotFoundError and has read no artifact.
C3_MissingMapping ==
    \A p \in Calls :
        (pc[p] = "done" /\ Hashed(p) /\ hash[p] \notin DOMAIN Mapping)
        => /\ Failed(p, "NotFoundError")
           /\ io[p] = 0

C3_Witness ==
    \E p, q \in Calls :
        /\ Ok(p) /\ p < q
        /\ pc[q] = "done" /\ Hashed(q) /\ hash[q] \notin DOMAIN Mapping
        /\ Failed(q, "NotFoundError")
        /\ DOMAIN reads = {ArtifactPath(hash[p])}

\* C4 (unknown type): a finished call whose fingerprint is mapped
\* to an artifact name whose derived type name is not registered has
\* returned UnknownTypeError, whatever the state of the artifact file.
C4_UnknownTypeAlways ==
    \A p \in Calls :
        (pc[p] = "done" /\ Hashed(p) /\ hash[p] \in DOMAIN Mapping
           /\ TypeNameOf(hash[p]) \notin DOMAIN ResponseTypes)
        => Failed(p, "UnknownTypeError")

C6_CacheMissRace ==
    \A h \in DOMAIN Mapping :
        LET racers == {p \in Calls : Hashed(p) /\ hash[p] = h /\ io[p] > 0}
        IN  (/\ Resolvable(h)
             /\ Cardinality(racers) >= 2
             /\ \A p \in Calls : (Hashed(p) /\ hash[p] = h) => pc[p] = "done")
            => /\ \A p \in racers : Ok(p) /\ io[p] = 1 /\ heap[ret[p].val] = Expected(h)
               /\ \A p, q \in racers : p # q => ret[p].val # ret[q].val
               /\ h \in DOMAIN cache
               /\ cache[h] \in {ret[p].val : p \in racers}

C6_Witness ==
    \E p, q \in Calls :
        /\ p < q /\ Ok(p) /\ Ok(q) /\ hash[p] = hash[q]
        /\ io[p] = 1 /\ io[q] = 1
        /\ reads[ArtifactPath(hash[p])] = 2
        /\ cache[hash[p]] = ret[p].val

\* The five outcomes of the per-request interface.
FiveErrors == {"NotFoundError", "UnknownTypeError", "ReadError", "DecodeError"}

\* C7 as claimed (outcome totality): a finished call has returned either a
\* Response or one of NotFoundError, UnknownTypeError, ReadError, DecodeError.
C7_FiveOutcomes ==
    \A p \in Calls :
        pc[p] = "done" => Ok(p) \/ \E kind \in FiveErrors : Failed(p, kind)

\* C7 as amended: a finished call has returned exactly one of a Response,
\* NotFoundError, UnknownTypeError, ReadError, DecodeError, or the error of
\* marshalling the request (a sixth outcome, reached before any lookup).
C7_SixOutcomes ==
    \A p \in Calls :
        pc[p] = "done"
        => /\ Ok(p) \/ \E kind \in FiveErrors \cup {"MarshalError"} : Failed(p, kind)
           /\ Ok(p) => ret[p].val \in DOMAIN heap
           /\ Failed(p, "MarshalError") <=> ~req[p].utf8

C7_Witness ==
    \E p, q \in Calls :
        /\ Failed(p, "MarshalError") /\ io[p] = 0
        /\ Failed(q, "DecodeError")

\* C8 (fingerprint determinism): two calls whose requests have the same
\* field values have computed the same fingerprint, in whatever order the
\* requests hold their map entries and whatever the state of the registry.
C8_FingerprintDeterminism ==
    \A p, q \in Calls :
        (Hashed(p) /\ Hashed(q) /\ FieldValues(req[p]) = FieldValues(req[q]))
        => hash[p] = hash[q]

C8_Witness ==
    \E p, q \in Calls :
        /\ Hashed(p) /\ Hashed(q) /\ req[p] # req[q]
        /\ FieldValues(req[p]) = FieldValues(req[q])
        /\ hash[p] = hash[q]
        /\ req[p].id = 0
        /\ Ok(p) /\ pc[q] = "load"

\* The mapping file parses as a flat object of string members.
FlatStringObject(file) ==
    /\ file.k = "object"
    /\ \A i \in 1..Len(file.members) : file.members[i][2].k = "string"

\* The table a JSON object's members give: for every key, the value of its
\* last member; null counts as the empty string.
FileContent(file) ==
    [key \in {file.members[i][1] : i \in 1..Len(file.members)} |->
        LET last == CHOOSE i \in 1..Len(file.members) :
                       /\ file.members[i][1] = key
                       /\ \A j \in 1..Len(file.members) :
                            file.members[j][1] = key => j <= i
        IN  file.members[last][2].s]

NoCallYet == \A p \in Calls : pc[p] = "idle"

\* C9 as claimed (load): LoadRegistry has failed, with no Registry, when the
\* mapping file is unreadable or is no flat string-to-string object;
\* otherwise the Registry holds the file's content and the supplied Type
\* Registry, its cache is empty, and no artifact was read.
C9_LoadStrict ==
    reg # "none"
    => /\ IF ~FlatStringObject(mappingFile)
          THEN reg = "failed" /\ loadErr # "nil"
          ELSE /\ reg = "loaded" /\ loadErr = "nil"
               /\ Mapping = FileContent(mappingFile)
               /\ ResponseTypes = responseTypes
       /\ NoCallYet => cache = <<>> /\ reads = <<>>

\* C9 as amended: LoadRegistry has failed when the mapping file is
\* unreadable, is no JSON, is a JSON value other than null or an object, or
\* has a member whose value is neither a string nor null; otherwise the
\* Registry holds the file's members (none for null; the empty artifact name
\* for a null member; the last of equal keys), the supplied Type Registry
\* and an empty cache, and no artifact was read.
C9_LoadLenient ==
    reg # "none"
    => /\ IF \/ mappingFile.k \in {"unreadable", "invalid", "array"}
             \/ \E i \in 1..Len(mappingFile.members) :
                   mappingFile.members[i][2].k \notin {"string", "null"}
          THEN reg = "failed" /\ loadErr # "nil" /\ Mapping = <<>> /\ ResponseTypes = <<>>
          ELSE /\ reg = "loaded" /\ loadErr = "nil"
               /\ Mapping = FileContent(mappingFile)
               /\ ResponseTypes = responseTypes
       /\ NoCallYet => cache = <<>> /\ reads = <<>>

C9_Witness ==
    /\ reg = "loaded" /\ NoCallYet
    /\ mappingFile.k = "object" /\ ~FlatStringObject(mappingFile)
    /\ \E h \in DOMAIN Mapping : Mapping[h] = <<>>
    /\ DOMAIN ResponseTypes # {}

\* C10 (step order): a call that failed with UnknownTypeError has
\* read no artifact, and a call that has read an artifact has a registered
\* type name.
C10_ResolveBeforeRead ==
    \A p \in Calls :
        /\ Failed(p, "UnknownTypeError") => io[p] = 0
        /\ io[p] > 0 => TypeNameOf(hash[p]) \in DOMAIN ResponseTypes

\* C11 (failure leaves the cache unchanged): the cache holds an entry for a
\* fingerprint only if a call for that fingerprint has read and decoded the
\* artifact with success and stored the cached instance, which it has
\* returned or is about to return; a fingerprint all of whose calls so far
\* ended in an error, or are still before their store, has no entry.
C11_NoEntryFromFailure ==
    /\ \A h \in DOMAIN cache :
          \E p \in Calls :
              /\ Hashed(p) /\ hash[p] = h /\ io[p] = 1
              /\ response[p] = cache[h]
              /\ pc[p] = "return" \/ (Ok(p) /\ ret[p].val = cache[h])
              /\ heap[cache[h]] = Expected(h)
    /\ \A p \in Calls :
          (pc[p] = "done" /\ Hashed(p) /\ ~Ok(p))
          => /\ ret[p].err.kind \in FiveErrors
             /\ \A h \in DOMAIN cache : cache[h] # response[p]
             /\ (\A q \in Calls : (Hashed(q) /\ hash[q] = hash[p])
                                      => (~Ok(q) /\ pc[q] # "return"))
                  => hash[p] \notin DOMAIN cache

\* A call failed in the decode, its half-built clone is on the heap, and the
\* cache holds nothing for its fingerprint while it holds another call's.
C11_Witness ==
    \E p, q \in Calls :
        /\ Failed(p, "DecodeError") /\ response[p] \in DOMAIN heap
        /\ hash[p] \notin DOMAIN cache
        /\ Ok(q) /\ DOMAIN cache = {hash[q]}


\* C12 (no eviction): a fingerprint that has a cache entry has one after
\* every step, and the cache lookup of a call for a fingerprint that has an
\* entry ends the call with the cached Response and no error without reading
\* the artifact, also when the artifact file has been deleted or overwritten
\* with undecodable bytes since the entry was stored.
C12_NoEviction ==
    [][/\ \A h \in DOMAIN cache : h \in DOMAIN cache'
       /\ \A p \in Calls :
             (pc[p] = "load" /\ pc'[p] # "load" /\ hash[p] \in DOMAIN cache)
             => /\ pc'[p] = "done"
                /\ ret'[p] = [val |-> cache[hash[p]], err |-> NoErr]
                /\ io'[p] = 0
                /\ reads' = reads]_vars

\* A call was served from the cache although the artifact of its fingerprint
\* is gone or no longer decodes.
C12_Witness ==
    \E p, q \in Calls :
        /\ Ok(p) /\ io[p] = 1
        /\ Ok(q) /\ io[q] = 0 /\ hash[q] = hash[p]
        /\ ret[q].val = cache[hash[q]]
        /\ \/ ~Readable(hash[q])
           \/ files[ArtifactPath(hash[q])] = Garbage


\* The instances the Type Registry holds.
Prototypes == {ResponseTypes[n] : n \in DOMAIN ResponseTypes}

\* C13 (tables and prototypes never modified): once the registry is built,
\* no step changes the Mapping Table, the Type Registry or the content of a
\* prototype; the only message a step writes to is the clone a call made for
\* itself and is decoding into, which is no prototype, is not cached and is
\* known to no other call.
C13_TablesAndPrototypesUntouched ==
    [][/\ reg # "none" => (Mapping' = Mapping /\ ResponseTypes' = ResponseTypes)
       /\ \A i \in DOMAIN heap :
             /\ i \in DOMAIN heap'
             /\ i \in {responseTypes[n] : n \in DOMAIN responseTypes}
                  => heap'[i] = heap[i]
             /\ heap'[i] # heap[i]
                  => \E p \in Calls :
                        /\ pc[p] = "unmarshal" /\ pc'[p] # "unmarshal"
                        /\ response[p] = i
                        /\ i \notin Prototypes
                        /\ \A h \in DOMAIN cache : cache[h] # i
                        /\ \A q \in Calls \ {p} : response[q] # i /\ ret[q].val # i]_vars

\* A call decoded an artifact into its clone of a prototype that is not the
\* zero message, and the prototype still has its content.
C13_Witness ==
    \E p \in Calls :
        /\ Ok(p) /\ io[p] = 1
        /\ typeTemplate[p] \in Prototypes
        /\ ret[p].val \notin Prototypes
        /\ heap[typeTemplate[p]].fields.id = 9
        /\ heap[ret[p].val].fields.id = 42
        /\ Mapping = FileContent(mappingFile)


\* The text holds the name as a contiguous part.
Carries(text, name) ==
    \E i \in 0..(Len(text) - Len(name)) : SubSeq(text, i + 1, i + Len(name)) = name

\* The errors other than DecodeError carry their context: NotFoundError the
\* fingerprint, UnknownTypeError the derived type name, ReadError the
\* artifact name, as the end of the cleaned path that could not be opened
\* (the artifact names mapped here are clean, so the path ends in the name
\* as written).
C14_ContextButDecode ==
    \A p \in Calls :
        /\ Failed(p, "NotFoundError") => ret[p].err.ctx = hash[p]
        /\ Failed(p, "UnknownTypeError") => ret[p].err.ctx = TypeNameOf(hash[p])
        /\ Failed(p, "ReadError")
             => /\ Carries(ret[p].err.ctx, Mapping[hash[p]])
                /\ ret[p].err.ctx = ArtifactPath(hash[p])

\* C14 (error context): the error of a finished call carries the context
\* that identifies the fixture problem: NotFoundError the fingerprint,
\* UnknownTypeError the derived type name, ReadError the artifact name and
\* DecodeError the artifact name.
C14_ErrorContext ==
    /\ C14_ContextButDecode
    /\ \A p \in Calls :
          Failed(p, "DecodeError")
          => /\ Mapping[hash[p]] # <<>>
             /\ Carries(ret[p].err.ctx, Mapping[hash[p]])


\* C15 (per-key atomicity): in every interleaving, the Response of a call
\* served from the cache is the instance that another call for the same
\* fingerprint decoded completely and stored (and has returned or is about
\* to return): its content is the artifact's, it is no prototype and no clone still being decoded, and no
\* call for another fingerprint produced it.
C15_HitIsStoredDecoded ==
    \A p \in Calls :
        (Ok(p) /\ io[p] = 0)
        => /\ \E q \in Calls \ {p} :
                 /\ io[q] = 1 /\ hash[q] = hash[p]
                 /\ response[q] = ret[p].val
                 /\ pc[q] = "return" \/ (Ok(q) /\ ret[q].val = ret[p].val)
           /\ heap[ret[p].val] = Expected(hash[p])
           /\ ret[p].val \notin Prototypes
           /\ \A q \in Calls :
                 (pc[q] \in {"unmarshal", "store"} \/ hash[q] # hash[p])
                 => response[q] # ret[p].val

\* A call that started before the call that decoded the artifact was served
\* that call's Response, whose content is the artifact's and not the
\* prototype's.
C15_Witness ==
    \E p, q \in Calls :
        /\ p < q
        /\ Ok(p) /\ io[p] = 0
        /\ Ok(q) /\ io[q] = 1 /\ hash[q] = hash[p]
        /\ ret[p].val = ret[q].val
        /\ heap[ret[p].val] = Expected(hash[p])
        /\ heap[ret[p].val] # heap[typeTemplate[q]]


\* The final path component of an artifact name: what follows its last "/".
FinalComponent(name) ==
    LET slashes == {i \in 1..Len(name) : name[i] = "/"}
        from == IF slashes = {} THEN 1
                ELSE 1 + CHOOSE i \in slashes : \A j \in slashes : j <= i
    IN  SubSeq(name, from, Len(name))

\* The component without its last extension: what precedes its last ".".
WithoutLastExtension(comp) ==
    LET dots == {i \in 1..Len(comp) : comp[i] = "."}
    IN  IF dots = {} THEN comp
        ELSE SubSeq(comp, 1, (CHOOSE i \in dots : \A j \in dots : j <= i) - 1)

\* The call has looked its type name up in the Type Registry.
Resolved(p) ==
    \/ pc[p] \in {"clone", "unmarshal", "store", "return"}
    \/ /\ pc[p] = "done" /\ io[p] = 1
       /\ ret[p].err.kind \in {"nil", "DecodeError", "UnknownTypeError"}

\* C16 (type-name derivation): the type name a call resolves is the final
\* path component of the artifact name without its last extension, with no
\* directory component in it: the call goes on with the prototype registered
\* under that name, or fails with UnknownTypeError naming it; for an artifact
\* name without extension the type name is the final component itself.
C16_TypeNameDerivation ==
    \A p \in Calls :
        Resolved(p)
        => LET name == Mapping[hash[p]]
               t == WithoutLastExtension(FinalComponent(name))
           IN  /\ \A i \in 1..Len(t) : t[i] # "/"
               /\ (\A i \in 1..Len(FinalComponent(name)) : FinalComponent(name)[i] # ".")
                    => t = FinalComponent(name)
               /\ IF t \in DOMAIN ResponseTypes
                  THEN /\ typeTemplate[p] = ResponseTypes[t]
                       /\ ret[p].err.kind # "UnknownTypeError"
                  ELSE /\ Failed(p, "UnknownTypeError")
                       /\ ret[p].err.ctx = t

\* An artifact without extension in a directory whose name has a dot was
\* resolved as its own name, and an artifact with two extensions lost only
\* the last.
C16_Witness ==
    \E p, q \in Calls :
        /\ Ok(p) /\ io[p] = 1 /\ Mapping[hash[p]] = dx_W
        /\ typeTemplate[p] = ResponseTypes[W_]
        /\ Failed(q, "UnknownTypeError") /\ Mapping[hash[q]] = W_t_j
        /\ ret[q].err.ctx = <<"W", ".", "t">>


\* C17 (cache consistency): every fingerprint that has a cache entry is a key
\* of the Mapping Table, the type name derived from the artifact name mapped
\* to it is registered, and the cached Response is a message of the type of
\* the prototype registered under that name, and is not that prototype.
C17_CacheConsistency ==
    \A h \in DOMAIN cache :
        /\ h \in DOMAIN Mapping
        /\ TypeNameOf(h) \in DOMAIN ResponseTypes
        /\ cache[h] \in DOMAIN heap
        /\ heap[cache[h]].type = heap[ResponseTypes[TypeNameOf(h)]].type
        /\ cache[h] # ResponseTypes[TypeNameOf(h)]

\* The cache holds a Gadget for a fingerprint mapped to G.j while the
\* registry also holds a Widget prototype.
C17_Witness ==
    \E h \in DOMAIN cache :
        /\ Mapping[h] = G_j
        /\ heap[cache[h]].type = "Gadget"
        /\ W_ \in DOMAIN ResponseTypes
        /\ heap[ResponseTypes[W_]].type = "Widget"


\* C18 (progress without mutual waiting): under fair scheduling a call that
\* has started and not returned can always take its next step, whatever the
\* other calls are doing, and every started call eventually returns.
C18_Progress ==
    \A p \in Calls :
        /\ [](pc[p] \notin {"idle", "done"} => ENABLED Step(p))
        /\ (pc[p] # "idle") ~> (pc[p] = "done")

\* All calls have returned after two of them, for the same fingerprint, both
\* missed the cache and the later one stored last.
C18_Witness ==
    /\ \A p \in Calls : pc[p] = "done"
    /\ \E p, q \in Calls :
          /\ p < q /\ hash[p] = hash[q]
          /\ Ok(p) /\ Ok(q) /\ io[p] = 1 /\ io[q] = 1
          /\ cache[hash[p]] = ret[q].val

====
